---- MODULE Spec2Model ----
(***************************************************************************)
(* Model of the RoboCup GameController client code of this repository.     *)
(*                                                                         *)
(*   src/fumanoid.cpp      RefereeGameController: a listener thread reads  *)
(*                         referee datagrams and reconciles them into the  *)
(*                         local game state (handleRefereeMessage).        *)
(*   src/unnamed/part_000  GameCtrl: receive() drains the socket and keeps *)
(*                         a copy of the last accepted referee packet.     *)
(*                                                                         *)
(* The two files are two programs, each with its own main(); a behaviour   *)
(* of the model runs one of them (variable program).                       *)
(***************************************************************************)
EXTENDS Integers, Sequences, FiniteSets, TLC

\* ------------------------------------------------------------------------
\* Bounds of the model
\* ------------------------------------------------------------------------
MaxCounter == 2      \* state.counter is followed up to this value
MaxScore == 1        \* scores carried by a packet: 0..MaxScore
MaxSecs == 2         \* secsTillUnpenalised carried by a packet: 0..MaxSecs
MaxTicks == 2        \* the clock of GameCtrl is followed for MaxTicks * ALIVE_DELAY ms

\* ------------------------------------------------------------------------
\* Protocol constants (RoboCupGameControlData.h, used by the sources)
\* ------------------------------------------------------------------------
STRUCT_HEADER == "RGme"
STRUCT_VERSION == 6
GAMECONTROLLER_RETURN_STRUCT_HEADER == "RGrt"
GAMECONTROLLER_RETURN_STRUCT_VERSION == 1
GAMECONTROLLER_RETURN_MSG_ALIVE == 0
MAX_NUM_PLAYERS == 11
TEAM_CYAN == 0
TEAM_MAGENTA == 1
STATE_INITIAL == 0
STATE_READY == 1
STATE_SET == 2
STATE_PLAYING == 3
STATE_FINISHED == 4
STATE2_NORMAL == 0
STATE2_PENALTYSHOOT == 1
SIZEOF_RoboCupGameControlData == 116
BUFFSIZE == 1500
REFEREEPORT == 3838
DEFAULTTEAMID == 2
MainTeamNumber == 2
GAMECONTROLLER_TIMEOUT == 2000
ALIVE_DELAY == 500

\* ------------------------------------------------------------------------
\* Inputs: the datagrams the transport can deliver
\* ------------------------------------------------------------------------
TeamNumbers == {DEFAULTTEAMID, 5}
Versions == {STRUCT_VERSION, STRUCT_VERSION + 1}
RefereeStates == STATE_INITIAL .. (STATE_FINISHED + 1)   \* one value past the enum
SecondaryStates == {STATE2_NORMAL, STATE2_PENALTYSHOOT}
KickOffTeams == 0 .. 3                                   \* 2 = drop ball, 3 = unsupported
TeamColours == {TEAM_CYAN, TEAM_MAGENTA}
Scores == 0 .. MaxScore
RobotIDs == {2, MAX_NUM_PLAYERS + 1}                     \* a valid and an invalid robot.getID()

\* players[] of one team: entry i is penalised for (i + off) mod (MaxSecs + 1) seconds,
\* so neighbouring entries (and the two teams of one packet) differ.
Players(off) ==
    [i \in 0 .. (MAX_NUM_PLAYERS - 1) |-> [secsTillUnpenalised |-> (i + off) % (MaxSecs + 1)]]

TeamInfo(n, c, s, off) ==
    [teamNumber |-> n, teamColour |-> c, score |-> s, players |-> Players(off)]

\* The content fields of a packet, apart from version and team numbers.
BaseContent ==
    [colour0 |-> TEAM_MAGENTA, score0 |-> 0, score1 |-> 0, state |-> STATE_INITIAL,
     secGameState |-> STATE2_NORMAL, kickOffTeam |-> 0, off |-> 0]

\* The base content with one field changed (the two colours always differ).
Contents ==
    {[BaseContent EXCEPT !.colour0 = c] : c \in TeamColours}
    \cup {[BaseContent EXCEPT !.score0 = s] : s \in Scores}
    \cup {[BaseContent EXCEPT !.score1 = s] : s \in Scores}
    \cup {[BaseContent EXCEPT !.state = s] : s \in RefereeStates}
    \cup {[BaseContent EXCEPT !.secGameState = s] : s \in SecondaryStates}
    \cup {[BaseContent EXCEPT !.kickOffTeam = k] : k \in KickOffTeams}
    \cup {[BaseContent EXCEPT !.off = o] : o \in 0 .. MaxSecs}

OtherColour(c) == IF c = TEAM_MAGENTA THEN TEAM_CYAN ELSE TEAM_MAGENTA

\* struct RoboCupGameControlData, the fields the sources read
MkData(v, n0, n1, c) ==
    [version |-> v,
     teams |-> [i \in 0 .. 1 |->
                  IF i = 0 THEN TeamInfo(n0, c.colour0, c.score0, c.off)
                           ELSE TeamInfo(n1, OtherColour(c.colour0), c.score1, c.off + 1)],
     state |-> c.state,
     secGameState |-> c.secGameState,
     kickOffTeam |-> c.kickOffTeam]

\* Two contents that change the local state when they are applied: they are what
\* the packets the handler returns from early carry (it reads nothing else of them),
\* and what the datagrams of wrong length or header carry.
MalformedContents ==
    {[BaseContent EXCEPT !.state = STATE_PLAYING], [BaseContent EXCEPT !.score0 = MaxScore]}

\* The packets of the supported version that name the local team carry every
\* content; the packets of another version and those for other teams carry the two.
TeamPairs == TeamNumbers \X TeamNumbers
LocalPairs == {p \in TeamPairs : p[1] = DEFAULTTEAMID \/ p[2] = DEFAULTTEAMID}

RoboCupGameControlData ==
    {MkData(STRUCT_VERSION, p[1], p[2], c) : p \in LocalPairs, c \in Contents}
    \cup {MkData(STRUCT_VERSION, p[1], p[2], c) :
              p \in TeamPairs \ LocalPairs, c \in MalformedContents}
    \cup {MkData(v, p[1], p[2], c) :
              v \in Versions \ {STRUCT_VERSION}, p \in TeamPairs, c \in MalformedContents}

\* A datagram: its length in bytes, and what a read of it leaves in the buffer: the
\* first four bytes (for a datagram shorter than that, partly what the buffer held
\* before) and the buffer seen through the struct.
WellFormed ==
    {[length |-> SIZEOF_RoboCupGameControlData, header |-> STRUCT_HEADER, data |-> d] :
        d \in RoboCupGameControlData}

\* Wrong length or wrong header, carrying a packet that would be applied (or would
\* disable the engine) if it reached handleRefereeMessage.

WellFormedOf(d) ==
    [length |-> SIZEOF_RoboCupGameControlData, header |-> STRUCT_HEADER, data |-> d]

Malformed ==
    {[length |-> n, header |-> h, data |-> MkData(v, DEFAULTTEAMID, 5, c)] :
        n \in {0, 3, SIZEOF_RoboCupGameControlData, SIZEOF_RoboCupGameControlData + 1},
        h \in {STRUCT_HEADER, "RGRT"}, v \in Versions, c \in MalformedContents}
    \ WellFormed

Datagrams == WellFormed \cup Malformed

\* The datagrams GameCtrl is fed: receive() copies a packet whole, so the packets of
\* MalformedContents stand for all contents.
GcDatagrams ==
    Malformed \cup
    {WellFormedOf(MkData(v, n0, n1, c)) :
        v \in Versions, n0 \in TeamNumbers, n1 \in TeamNumbers, c \in MalformedContents}

\* *playerNumber: the constructor leaves the pointer unset, the value read is any.
PlayerNumbers == {1, 2}

\* The remote address a read reports.  The referee sends every datagram, from a
\* port of its own choosing; a second host sends, from the referee port, two
\* packets addressed to the local team.
Referee == [addr |-> "referee", port |-> REFEREEPORT + 1]
OtherHost == [addr |-> "other", port |-> REFEREEPORT]

OtherHostDatagrams ==
    {WellFormedOf(MkData(STRUCT_VERSION, DEFAULTTEAMID, 5, c)) : c \in MalformedContents}

Senders(dg) == IF dg \in OtherHostDatagrams THEN {Referee, OtherHost} ELSE {Referee}

\* ------------------------------------------------------------------------
\* RefereeGameController (src/fumanoid.cpp)
\* ------------------------------------------------------------------------
VARIABLES
    program,          \* which of the two programs runs: "fumanoid" or "gamectrl"
    running,          \* the listener thread was started by init()
    robotID,          \* robot.getID()
    state,            \* RefereeGameController::state, the local game state
    refereeEnabled,   \* RefereeGameController::refereeEnabled
    GCinitialized,    \* RefereeGameController::GCinitialized
    sent,             \* what the last loop iteration wrote to the transport
    sentAfter,        \* history: state.counter when that write was made (-1: none)
    rx,               \* history: the last datagram read, reduced to its class
                      \*          (none since the robot was last given an ID)
    applied,          \* history: the packet of the last iteration that got past
                      \*          the version, enabled and addressing checks; for
                      \*          GameCtrl, the packet of the last datagram of the
                      \*          right size, header and version that names the team
    mismatched,       \* history: a packet of another version reached the handler
    streak,           \* history: how many iterations in a row applied the packet
                      \*          held in applied (0, 1, or 2 for two and more)
    hpc,              \* the line of handleRefereeMessage the listener thread is at
    hdata,            \* the packet that call works on (the thread's buffer)
    before,           \* history: the object when that call began
    reader,           \* what a reader on another thread last got from the object
    udp,              \* GameCtrl::udp is a socket (TRUE) or 0 (FALSE)
    teamNumber,       \* GameCtrl::teamNumber
    gameCtrlData,     \* GameCtrl::gameCtrlData, the local copy of the referee packet
    received,         \* the local variable received of GameCtrl::receive, its result
    gpc,              \* where GameCtrl is: "main", or "loop" inside receive()
    now,              \* the time in ms since GameCtrl was constructed
    whenPacketWasReceived,   \* GameCtrl::whenPacketWasReceived
    whenPacketWasSent,       \* GameCtrl::whenPacketWasSent
    sendResult,       \* what the last call of GameCtrl::send returned ("none": no call)
    lastAttempt       \* history: the time of the last call of GameCtrl::send (-1: none)

vars == <<program, running, robotID, state, refereeEnabled, GCinitialized,
          sent, sentAfter, rx, applied, mismatched, streak, hpc, hdata, before, reader,
          udp, teamNumber, gameCtrlData, received, gpc,
          now, whenPacketWasReceived, whenPacketWasSent, sendResult, lastAttempt>>

\* The clock and the send side of GameCtrl
gcClock == <<now, whenPacketWasReceived, whenPacketWasSent, sendResult, lastAttempt>>

\* The variables of GameCtrl
gcVars == <<udp, teamNumber, gameCtrlData, received, gpc, gcClock>>

\* The variables of RefereeGameController
refVars == <<running, robotID, state, refereeEnabled, GCinitialized, sent,
             sentAfter, applied, mismatched, streak>>

\* The variables of the statement-by-statement view of the handler
stepVars == <<hpc, hdata, before, reader>>

NoPacket == [version |-> -1]
NoRead == [snap |-> "none"]
NoCall == [state |-> "none"]

\* The local game state as the object is created: zero / sentinel values.
ZeroState(side) ==
    [teamID |-> 0, teamColor |-> "Magenta", opponentID |-> 0,
     teamScore |-> 0, opponentScore |-> 0,
     kickOffMode |-> "KICKOFF_REGULAR", kickOffSide |-> side,
     gameState |-> "GAME_STOPPED", isPenaltyShoot |-> FALSE,
     isPenalized |-> FALSE, remainingPenalizedTime |-> 0, counter |-> 0]

InitialKickOffSides == {"KICKOFFSIDE_ME", "KICKOFFSIDE_ANY"}

\* An ID past the last player wrapped around to the first.
getGCRobotID_Wrapped(id) ==
    IF id > 0 THEN (id - 1) % MAX_NUM_PLAYERS ELSE -1

\* getGCRobotID: robots 1..MAX_NUM_PLAYERS map to 0..MAX_NUM_PLAYERS-1, all others to -1
getGCRobotID(id) ==
    IF id > 0 /\ id <= MAX_NUM_PLAYERS THEN id - 1 ELSE -1

\* A listener that takes every packet it cannot place in slot 0 as one for slot 1.
TeamIndex_SecondByDefault(st, data) ==
    IF data.teams[0].teamNumber = st.teamID THEN 0 ELSE 1

\* "check whether we are an intended recipient": slot 0 before slot 1, else -1
TeamIndex(st, data) ==
    IF data.teams[0].teamNumber = st.teamID THEN 0
    ELSE IF data.teams[1].teamNumber = st.teamID THEN 1
    ELSE -1

\* The counter bumped once per changed score rather than once per packet.
IncCounter_Skipped(st) == st

\* state.counter++
IncCounter(st) == [st EXCEPT !.counter = @ + 1]

\* "set the ID of our opponent"
SetOpponent(st, data, ti) ==
    [st EXCEPT !.opponentID = data.teams[1 - ti].teamNumber]

\* "We scored": the goals of the packet added to the stored score.
AdjustScores_Accumulate(st, data, ti) ==
    [st EXCEPT !.teamScore = @ + data.teams[ti].score,
               !.opponentScore = data.teams[1 - ti].score]

\* Scores that only ever go up.
AdjustScores_UpOnly(st, data, ti) ==
    LET s1 == IF data.teams[ti].score > st.teamScore
              THEN [st EXCEPT !.teamScore = data.teams[ti].score] ELSE st
    IN  IF data.teams[1 - ti].score > s1.opponentScore
        THEN [s1 EXCEPT !.opponentScore = data.teams[1 - ti].score] ELSE s1

\* "adjust our score", "adjust opponent score"
AdjustScores(st, data, ti) ==
    LET s1 == IF data.teams[ti].score # st.teamScore
              THEN [st EXCEPT !.teamScore = data.teams[ti].score] ELSE st
    IN  IF data.teams[1 - ti].score # s1.opponentScore
        THEN [s1 EXCEPT !.opponentScore = data.teams[1 - ti].score] ELSE s1

\* Drop ball that switches the mode and forgets the side.
HandleDropBall_ModeOnly(st, data) ==
    IF data.kickOffTeam = 2 /\ st.kickOffMode # "KICKOFF_DROPBALL"
    THEN [st EXCEPT !.kickOffMode = "KICKOFF_DROPBALL"]
    ELSE st

\* "handle drop ball, alternative implementation"
HandleDropBall(st, data) ==
    IF data.kickOffTeam = 2 /\ st.kickOffMode # "KICKOFF_DROPBALL"
    THEN [st EXCEPT !.kickOffMode = "KICKOFF_DROPBALL", !.kickOffSide = "KICKOFFSIDE_ANY"]
    ELSE st

\* A kick off that sets the side and leaves the mode of a drop ball in place.
AdjustKickOff_SideOnly(st, data, ti) ==
    IF \/ (data.kickOffTeam = ti /\ st.kickOffSide # "KICKOFFSIDE_ME")
       \/ (data.kickOffTeam = 1 - ti /\ st.kickOffSide # "KICKOFFSIDE_OPPONENT")
    THEN [st EXCEPT !.kickOffSide = IF data.kickOffTeam = ti THEN "KICKOFFSIDE_ME"
                                    ELSE "KICKOFFSIDE_OPPONENT"]
    ELSE st

\* "adjust kick off if our settings mismatch those of the referee"
AdjustKickOff(st, data, ti) ==
    IF \/ (data.kickOffTeam = ti /\ st.kickOffSide # "KICKOFFSIDE_ME")
       \/ (data.kickOffTeam = 1 - ti /\ st.kickOffSide # "KICKOFFSIDE_OPPONENT")
    THEN [st EXCEPT !.kickOffMode = "KICKOFF_REGULAR",
                    !.kickOffSide = IF data.kickOffTeam = ti THEN "KICKOFFSIDE_ME"
                                    ELSE "KICKOFFSIDE_OPPONENT"]
    ELSE st

\* The colour read from the opponent's slot.
AdjustTeamColor_OtherSlot(st, data, ti) ==
    LET teamColor == IF data.teams[1 - ti].teamColour = TEAM_MAGENTA THEN "Magenta" ELSE "Cyan"
    IN  IF teamColor # st.teamColor THEN [st EXCEPT !.teamColor = teamColor] ELSE st

\* "adjust team color"
AdjustTeamColor(st, data, ti) ==
    LET teamColor == IF data.teams[ti].teamColour = TEAM_MAGENTA THEN "Magenta" ELSE "Cyan"
    IN  IF teamColor # st.teamColor THEN [st EXCEPT !.teamColor = teamColor] ELSE st

\* A chain that has no branch for STATE_FINISHED.
AdjustGameState_FinishedIgnored(st, data) ==
    IF data.state = STATE_INITIAL /\ st.gameState # "GAME_STOPPED"
    THEN [st EXCEPT !.gameState = "GAME_STOPPED"]
    ELSE IF data.state = STATE_READY /\ st.gameState # "GAME_READY"
    THEN [st EXCEPT !.gameState = "GAME_READY"]
    ELSE IF data.state = STATE_SET /\ st.gameState # "GAME_SET"
    THEN [st EXCEPT !.gameState = "GAME_SET"]
    ELSE IF data.state = STATE_PLAYING /\ st.gameState # "GAME_STARTED"
    THEN [st EXCEPT !.gameState = "GAME_STARTED"]
    ELSE st

\* "adjust game state"
AdjustGameState(st, data) ==
    IF data.state = STATE_INITIAL /\ st.gameState # "GAME_STOPPED"
    THEN [st EXCEPT !.gameState = "GAME_STOPPED"]
    ELSE IF data.state = STATE_READY /\ st.gameState # "GAME_READY"
    THEN [st EXCEPT !.gameState = "GAME_READY"]
    ELSE IF data.state = STATE_SET /\ st.gameState # "GAME_SET"
    THEN [st EXCEPT !.gameState = "GAME_SET"]
    ELSE IF data.state = STATE_PLAYING /\ st.gameState # "GAME_STARTED"
    THEN [st EXCEPT !.gameState = "GAME_STARTED"]
    ELSE IF data.state = STATE_FINISHED /\ st.gameState # "GAME_STOPPED"
    THEN [st EXCEPT !.gameState = "GAME_STOPPED"]
    ELSE st

\* "penalty shootout?"
AdjustPenaltyShoot(st, data) ==
    IF data.secGameState = STATE2_NORMAL /\ st.isPenaltyShoot
    THEN [st EXCEPT !.isPenaltyShoot = FALSE]
    ELSE IF data.secGameState = STATE2_PENALTYSHOOT /\ ~st.isPenaltyShoot
    THEN [st EXCEPT !.isPenaltyShoot = TRUE]
    ELSE st

\* The players array indexed by the robot's own 1-based ID.
HandlePenalties_OneBased(st, data, ti, id) ==
    LET gcRobotID == getGCRobotID(id)
    IN  IF gcRobotID # -1
        THEN LET secs == data.teams[ti].players[id % MAX_NUM_PLAYERS].secsTillUnpenalised
             IN  IF secs > 0
                 THEN [st EXCEPT !.remainingPenalizedTime = secs, !.isPenalized = TRUE]
                 ELSE [st EXCEPT !.remainingPenalizedTime = 0, !.isPenalized = FALSE]
        ELSE st

\* "handle penalties"
HandlePenalties(st, data, ti, id) ==
    LET gcRobotID == getGCRobotID(id)
    IN  IF gcRobotID # -1
        THEN LET secs == data.teams[ti].players[gcRobotID].secsTillUnpenalised
             IN  IF secs > 0
                 THEN [st EXCEPT !.remainingPenalizedTime = secs, !.isPenalized = TRUE]
                 ELSE [st EXCEPT !.remainingPenalizedTime = 0, !.isPenalized = FALSE]
        ELSE st

\* A version mismatch that counts as the first contact with the referee.
OnVersionMismatch_MarkInitialized(self) ==
    [self EXCEPT !.refereeEnabled = FALSE, !.GCinitialized = TRUE]

\* A version mismatch that is logged and not remembered.
OnVersionMismatch_LogOnly(self) == self

\* The object the handler works on: self = [state, refereeEnabled, GCinitialized].
\* The branch of a version mismatch: refereeEnabled = false, return.
OnVersionMismatch(self) == [self EXCEPT !.refereeEnabled = FALSE]

\* handleRefereeMessage as one call, from its first line to its last.
handleRefereeMessage(self, data, id) ==
    IF data.version # STRUCT_VERSION
    THEN OnVersionMismatch(self)
    ELSE IF self.refereeEnabled = FALSE
    THEN self
    ELSE LET ti == TeamIndex(self.state, data)
         IN  IF ti = -1
             THEN self
             ELSE LET s1 == IncCounter(self.state)
                      s2 == SetOpponent(s1, data, ti)
                      s3 == AdjustScores(s2, data, ti)
                      s4 == HandleDropBall(s3, data)
                      s5 == AdjustKickOff(s4, data, ti)
                      s6 == AdjustTeamColor(s5, data, ti)
                      s7 == AdjustGameState(s6, data)
                      s8 == AdjustPenaltyShoot(s7, data)
                      s9 == HandlePenalties(s8, data, ti, id)
                  IN  [self EXCEPT !.state = s9, !.GCinitialized = TRUE]

\* A status packet returned to the port the datagram came from.
StatusPacket_ReplyToSource(st, id, remoteAddress) ==
    [header |-> GAMECONTROLLER_RETURN_STRUCT_HEADER,
     version |-> GAMECONTROLLER_RETURN_STRUCT_VERSION,
     team |-> st.teamID, player |-> id,
     message |-> GAMECONTROLLER_RETURN_MSG_ALIVE,
     addr |-> remoteAddress.addr, port |-> remoteAddress.port]

\* The status packet threadMain builds and the address it writes it to: the
\* remote address of the read with sin_port = htons(gcPort).
StatusPacket(st, id, remoteAddress) ==
    [header |-> GAMECONTROLLER_RETURN_STRUCT_HEADER,
     version |-> GAMECONTROLLER_RETURN_STRUCT_VERSION,
     team |-> st.teamID, player |-> id,
     message |-> GAMECONTROLLER_RETURN_MSG_ALIVE,
     addr |-> remoteAddress.addr, port |-> REFEREEPORT]

\* A read of a datagram into a buffer of capacity bytes returns the bytes copied:
\* what does not fit is cut off.
Read(dg, capacity) == IF dg.length > capacity THEN capacity ELSE dg.length

\* A header test that lets every datagram through.
HeaderMatches_Any(dg) == TRUE

\* The header test of threadMain: strncmp(buffer, STRUCT_HEADER, 4) == 0
HeaderMatches(dg) == dg.header = STRUCT_HEADER

\* The size test of threadMain: received == sizeof(RoboCupGameControlData)
SizeMatches(dg) == Read(dg, BUFFSIZE) = SIZEOF_RoboCupGameControlData

\* The packet is dispatched to handleRefereeMessage
Dispatched(dg) == Read(dg, BUFFSIZE) > 0 /\ HeaderMatches(dg) /\ SizeMatches(dg)

\* What one loop iteration does with the datagram: the printf of a failed read, the
\* ERROR of a size mismatch, a silent drop, or the call of the handler.
Outcome(dg) ==
    IF Read(dg, BUFFSIZE) <= 0 THEN "ReadError"
    ELSE IF HeaderMatches(dg)
    THEN IF ~SizeMatches(dg) THEN "SizeMismatch" ELSE "Handled"
    ELSE "Dropped"

\* History: the class of a datagram, by the words of the protocol.
Addressed(data, teamID) ==
    data.teams[0].teamNumber = teamID \/ data.teams[1].teamNumber = teamID

ClassOf(dg, from, teamID, enabled, outcome) ==
    [from |-> from,
     sizeOK |-> dg.length = SIZEOF_RoboCupGameControlData,
     headerOK |-> dg.header = STRUCT_HEADER,
     versionOK |-> dg.data.version = STRUCT_VERSION,
     addressed |-> Addressed(dg.data, teamID),
     enabled |-> enabled,
     outcome |-> outcome]

NoAddress == [addr |-> "none", port |-> 0]

NoDatagram ==
    [from |-> NoAddress,
     sizeOK |-> FALSE, headerOK |-> FALSE, versionOK |-> FALSE, addressed |-> FALSE,
     enabled |-> FALSE, outcome |-> "None"]

\* The datagram is one RefereeGameController applies: right size, header and
\* version, addressed to the local team, read by an enabled engine.
Passes(c) ==
    /\ program = "fumanoid"
    /\ c.sizeOK /\ c.headerOK /\ c.versionOK /\ c.addressed /\ c.enabled

TypeOK ==
    /\ program \in {"fumanoid", "gamectrl"}
    /\ running \in BOOLEAN
    /\ robotID \in RobotIDs
    /\ refereeEnabled \in BOOLEAN
    /\ GCinitialized \in BOOLEAN
    /\ state.counter \in 0 .. MaxCounter

\* memset(&gameCtrlData, 0, sizeof(gameCtrlData))
ZeroData ==
    [version |-> 0,
     teams |-> [i \in 0 .. 1 |->
                  [teamNumber |-> 0, teamColour |-> 0, score |-> 0,
                   players |-> [j \in 0 .. (MAX_NUM_PLAYERS - 1) |-> [secsTillUnpenalised |-> 0]]]],
     state |-> 0, secGameState |-> 0, kickOffTeam |-> 0]

Init ==
    /\ program \in {"fumanoid", "gamectrl"}
    /\ running = FALSE
    /\ robotID \in (IF program = "fumanoid" THEN RobotIDs ELSE {2})
    /\ udp \in (IF program = "gamectrl" THEN BOOLEAN ELSE {FALSE})
    /\ teamNumber = 0
    /\ gameCtrlData = ZeroData
    /\ received = FALSE
    /\ gpc = "main"
    /\ now = 0
    /\ whenPacketWasReceived = 0
    /\ whenPacketWasSent = 0
    /\ sendResult = "none"
    /\ lastAttempt = -1
    /\ \E side \in InitialKickOffSides : state = ZeroState(side)
    /\ refereeEnabled = FALSE
    /\ GCinitialized = FALSE
    /\ sent = <<>>
    /\ sentAfter = -1
    /\ rx = NoDatagram
    /\ applied = NoPacket
    /\ mismatched = FALSE
    /\ streak = 0
    /\ hpc = "idle"
    /\ hdata = NoPacket
    /\ before = NoCall
    /\ reader = NoRead

\* RefereeGameController::init(): reads the configuration, opens the transport and
\* starts the listener thread.
init ==
    /\ program = "fumanoid"
    /\ ~running
    /\ state.teamID = 0
    /\ \E teamColorStr \in {"magenta", "cyan", ""}, enabled \in BOOLEAN, opened \in BOOLEAN :
          /\ state' = [state EXCEPT
                          !.teamID = DEFAULTTEAMID,
                          !.teamColor = IF teamColorStr # ""
                                        THEN (IF teamColorStr = "magenta" THEN "Magenta" ELSE "Cyan")
                                        ELSE @]
          /\ refereeEnabled' = enabled
          /\ running' = (enabled /\ opened)
    /\ UNCHANGED <<program, robotID, GCinitialized, sent, sentAfter, rx, applied,
                   mismatched, streak>>
    /\ UNCHANGED stepVars
    /\ UNCHANGED gcVars

\* One iteration of the loop of threadMain for which waitForData found a datagram.
threadMain ==
    /\ program = "fumanoid"
    /\ running
    /\ \E dg \in Datagrams :
       \E remoteAddress \in Senders(dg) :
          LET self == [state |-> state, refereeEnabled |-> refereeEnabled,
                       GCinitialized |-> GCinitialized]
              after == IF Dispatched(dg) THEN handleRefereeMessage(self, dg.data, robotID)
                       ELSE self
              class == ClassOf(dg, remoteAddress, state.teamID, refereeEnabled, Outcome(dg))
          IN  /\ after.state.counter <= MaxCounter
              /\ state' = after.state
              /\ refereeEnabled' = after.refereeEnabled
              /\ GCinitialized' = after.GCinitialized
              /\ sent' = IF Dispatched(dg)
                         THEN <<StatusPacket(after.state, robotID, remoteAddress)>> ELSE <<>>
              /\ sentAfter' = IF Dispatched(dg) THEN after.state.counter ELSE -1
              /\ rx' = class
              /\ applied' = IF Passes(class) THEN dg.data ELSE applied
              /\ mismatched' = (mismatched \/ (class.sizeOK /\ class.headerOK /\ ~class.versionOK))
              /\ streak' = IF ~Passes(class) THEN 0
                           ELSE IF Passes(rx) /\ dg.data = applied THEN 2 ELSE 1
    /\ UNCHANGED <<program, running, robotID>>
    /\ UNCHANGED stepVars
    /\ UNCHANGED gcVars

\* robot.getID() is read anew in every iteration (l.188, l.331): between two
\* iterations the robot is given another ID.  The history of datagrams starts over.
setID ==
    /\ program = "fumanoid"
    /\ running
    /\ \E id \in RobotIDs \ {robotID} : robotID' = id
    /\ sent' = <<>>
    /\ sentAfter' = -1
    /\ rx' = NoDatagram
    /\ streak' = 0
    /\ UNCHANGED <<program, running, state, refereeEnabled, GCinitialized,
                   applied, mismatched>>
    /\ UNCHANGED stepVars
    /\ UNCHANGED gcVars

\* ------------------------------------------------------------------------
\* GameCtrl (src/unnamed/part_000)
\* ------------------------------------------------------------------------

\* A size test that is content with a datagram that fills the header.
GcSizeMatches_AtLeastHeader(dg) == Read(dg, SIZEOF_RoboCupGameControlData) >= 4

\* size == sizeof(buffer), for a read into a buffer of sizeof(buffer) bytes
GcSizeMatches(dg) ==
    Read(dg, SIZEOF_RoboCupGameControlData) = SIZEOF_RoboCupGameControlData

\* A header test that looks at the length only.
GcHeaderMatches_Any(dg) == TRUE

\* !std::memcmp(&buffer, GAMECONTROLLER_STRUCT_HEADER, 4)
GcHeaderMatches(dg) == dg.header = STRUCT_HEADER

\* The condition under which receive() takes a datagram over
Accepts(dg, tn) ==
    /\ GcSizeMatches(dg)
    /\ GcHeaderMatches(dg)
    /\ dg.data.version = STRUCT_VERSION
    /\ tn # 0
    /\ (dg.data.teams[0].teamNumber = tn \/ dg.data.teams[1].teamNumber = tn)

\* main(): gamectl.teamNumber = 2
setTeamNumber ==
    /\ program = "gamectrl"
    /\ gpc = "main"
    /\ teamNumber = 0
    /\ teamNumber' = MainTeamNumber
    /\ UNCHANGED <<program, rx, udp, gameCtrlData, received, gpc>>
    /\ UNCHANGED gcClock
    /\ UNCHANGED refVars
    /\ UNCHANGED stepVars

\* receive() is called: received = false
receiveBegin ==
    /\ program = "gamectrl"
    /\ gpc = "main"
    /\ received' = FALSE
    /\ gpc' = "loop"
    /\ UNCHANGED <<program, rx, udp, teamNumber, gameCtrlData>>
    /\ UNCHANGED gcClock
    /\ UNCHANGED refVars
    /\ UNCHANGED stepVars

\* One turn of the while loop of receive(): udp->read returned more than 0 bytes.
receiveRead ==
    /\ program = "gamectrl"
    /\ gpc = "loop"
    /\ udp
    /\ \E dg \in GcDatagrams :
          /\ Read(dg, SIZEOF_RoboCupGameControlData) > 0
          /\ gameCtrlData' = IF Accepts(dg, teamNumber) THEN dg.data ELSE gameCtrlData
          /\ received' = IF Accepts(dg, teamNumber) THEN TRUE ELSE received
          /\ rx' = ClassOf(dg, NoAddress, teamNumber, teamNumber # 0,
                           IF Accepts(dg, teamNumber) THEN "Accepted" ELSE "Ignored")
          /\ applied' = IF /\ dg.length = SIZEOF_RoboCupGameControlData
                           /\ dg.header = STRUCT_HEADER
                           /\ dg.data.version = STRUCT_VERSION
                           /\ teamNumber # 0
                           /\ Addressed(dg.data, teamNumber)
                        THEN dg.data ELSE applied
    /\ UNCHANGED <<program, udp, teamNumber, gpc>>
    /\ UNCHANGED gcClock
    /\ UNCHANGED <<running, robotID, state, refereeEnabled, GCinitialized, sent,
                   sentAfter, mismatched, streak>>
    /\ UNCHANGED stepVars

\* The loop of receive() ends (udp is 0, or the read returned 0 or less) and
\* receive() returns received.
receiveEnd ==
    /\ program = "gamectrl"
    /\ gpc = "loop"
    /\ gpc' = "main"
    /\ UNCHANGED <<program, rx, udp, teamNumber, gameCtrlData, received>>
    /\ UNCHANGED gcClock
    /\ UNCHANGED refVars
    /\ UNCHANGED stepVars

\* The return packet of GameCtrl::send
ReturnPacket(tn, player, message) == [team |-> tn, player |-> player, message |-> message]

\* GameCtrl::send(GAMECONTROLLER_RETURN_MSG_ALIVE): the packet is written when there
\* is a socket, the result is !udp || udp->write(...); no time is recorded.
send ==
    /\ program = "gamectrl"
    /\ gpc = "main"
    /\ \E player \in PlayerNumbers, written \in BOOLEAN :
          /\ sent' = IF udp
                     THEN <<ReturnPacket(teamNumber, player, GAMECONTROLLER_RETURN_MSG_ALIVE)>>
                     ELSE <<>>
          /\ sendResult' = (~udp \/ written)
    /\ lastAttempt' = now
    /\ UNCHANGED <<program, running, robotID, state, refereeEnabled, GCinitialized,
                   sentAfter, rx, applied, mismatched, streak>>
    /\ UNCHANGED <<udp, teamNumber, gameCtrlData, received, gpc,
                   now, whenPacketWasReceived, whenPacketWasSent>>
    /\ UNCHANGED stepVars

\* Time passes between two calls made by main: ALIVE_DELAY ms at a time.
tick ==
    /\ program = "gamectrl"
    /\ gpc = "main"
    /\ now < MaxTicks * ALIVE_DELAY
    /\ now' = now + ALIVE_DELAY
    /\ UNCHANGED <<program, rx, udp, teamNumber, gameCtrlData, received, gpc,
                   whenPacketWasReceived, whenPacketWasSent, sendResult, lastAttempt>>
    /\ UNCHANGED refVars
    /\ UNCHANGED stepVars

Next ==
    \/ init \/ threadMain \/ setID
    \/ setTeamNumber \/ receiveBegin \/ receiveRead \/ receiveEnd
    \/ send \/ tick

Spec == Init /\ [][Next]_vars

\* ------------------------------------------------------------------------
\* Properties of RefereeGameController
\* ------------------------------------------------------------------------

\* The fields of the object that handleRefereeMessage may write, apart from
\* refereeEnabled.
Untouched == state' = state /\ GCinitialized' = GCinitialized

\* The last datagram read reached handleRefereeMessage.
Handled(c) == c.sizeOK /\ c.headerOK

\* C1: once handleRefereeMessage has processed a packet of another version, the
\* engine stays disabled: no later packet, however valid, changes a field of the
\* local game state (the counter included) or sets refereeEnabled again.
C1_DisabledForGood ==
    [][/\ mismatched' => ~refereeEnabled'
       /\ mismatched => Untouched]_vars

\* C1 witness: after the mismatch a packet of the right version, addressed to the
\* local team, went through the handler of an engine that had applied packets.
C1_Witness ==
    /\ mismatched
    /\ Handled(rx) /\ rx.versionOK /\ rx.addressed
    /\ state.counter > 0

\* C2: a packet of the right version that names the local team in neither slot
\* leaves the counter and every other field of the local game state unchanged.
C2_UnaddressedIgnored ==
    [][(Handled(rx') /\ rx'.versionOK /\ ~rx'.addressed)
        => (Untouched /\ refereeEnabled' = refereeEnabled)]_vars

\* C2 witness: an enabled engine that holds reconciled state has just handled such
\* a packet.
C2_Witness ==
    /\ Handled(rx) /\ rx.versionOK /\ ~rx.addressed /\ rx.enabled
    /\ GCinitialized /\ state.counter > 0

\* C3: the same valid, addressed packet applied twice in a row: the second
\* application adds one to the counter and changes no other field.
C3_Idempotent ==
    [][streak' = 2 => /\ state' = [state EXCEPT !.counter = @ + 1]
                      /\ GCinitialized' = GCinitialized
                      /\ refereeEnabled' = refereeEnabled]_vars

\* C3 witness: a packet that changed fields on its first application (phase,
\* kickoff side or score) has been applied a second time.
C3_Witness ==
    /\ streak = 2
    /\ state.counter = 2
    /\ \/ state.gameState = "GAME_STARTED"
       \/ state.kickOffSide = "KICKOFFSIDE_OPPONENT"
       \/ state.teamScore > 0

\* The mapping rules, as the protocol words them.  The own slot is the first slot
\* that carries the local team number.
OwnSlot(p, teamID) == IF p.teams[0].teamNumber = teamID THEN 0 ELSE 1

ColourRule(p, ti) ==
    IF p.teams[ti].teamColour = TEAM_MAGENTA THEN "Magenta" ELSE "Cyan"

SideRule(p, ti) ==
    IF p.kickOffTeam = ti THEN "KICKOFFSIDE_ME"
    ELSE IF p.kickOffTeam = 1 - ti THEN "KICKOFFSIDE_OPPONENT"
    ELSE IF p.kickOffTeam = 2 THEN "KICKOFFSIDE_ANY"
    ELSE "unmapped"

PhaseRule(p) ==
    IF p.state = STATE_INITIAL THEN "GAME_STOPPED"
    ELSE IF p.state = STATE_READY THEN "GAME_READY"
    ELSE IF p.state = STATE_SET THEN "GAME_SET"
    ELSE IF p.state = STATE_PLAYING THEN "GAME_STARTED"
    ELSE IF p.state = STATE_FINISHED THEN "GAME_STOPPED"
    ELSE "unmapped"

\* C4 as stated: after a packet has been applied, team color, kickoff side and
\* game phase are the values the rules derive from the most recent applied packet,
\* never a value kept from an earlier one.
C4_AlwaysDerived ==
    applied # NoPacket =>
        LET ti == OwnSlot(applied, state.teamID)
        IN  /\ state.teamColor = ColourRule(applied, ti)
            /\ state.kickOffSide = SideRule(applied, ti)
            /\ state.gameState = PhaseRule(applied)

\* C4 amended: every applied packet sets the team color to the derived value, and
\* the kickoff side and the game phase to the derived value when the packet's
\* kickOffTeam is 0, 1 or 2 and its state is one of the five mapped ones; a field
\* whose input is outside that range keeps the value it had, and a packet that is
\* not applied changes none of the three.
C4_DerivedOrKept ==
    [][running =>
        IF Passes(rx')
        THEN LET ti == OwnSlot(applied', state.teamID)
                 side == SideRule(applied', ti)
                 phase == PhaseRule(applied')
             IN  /\ state'.teamColor = ColourRule(applied', ti)
                 /\ state'.kickOffSide = IF side = "unmapped" THEN state.kickOffSide ELSE side
                 /\ state'.gameState = IF phase = "unmapped" THEN state.gameState ELSE phase
        ELSE /\ state'.teamColor = state.teamColor
             /\ state'.kickOffSide = state.kickOffSide
             /\ state'.gameState = state.gameState]_vars

\* C4 witness: the last applied packet carried a referee state outside the enum and
\* the phase of an earlier packet is still there.
C4_Witness ==
    /\ applied # NoPacket
    /\ Passes(rx)
    /\ PhaseRule(applied) = "unmapped"
    /\ state.gameState = "GAME_STARTED"

\* C5: after an addressed packet with kickOffTeam == 2 is applied the kickoff mode
\* is DropBall and the kickoff side is Either, whatever they were before.
C5_DropBallWins ==
    [][(Passes(rx') /\ applied'.kickOffTeam = 2)
        => /\ state'.kickOffMode = "KICKOFF_DROPBALL"
           /\ state'.kickOffSide = "KICKOFFSIDE_ANY"]_vars

\* C5 witness: the second packet applied asked for a drop ball.
C5_Witness ==
    /\ Passes(rx)
    /\ applied.kickOffTeam = 2
    /\ state.counter = 2
    /\ state.kickOffMode = "KICKOFF_DROPBALL"

\* C6: remainingPenalizedTime is never negative, isPenalized holds exactly when it
\* is positive, and after a packet is applied with a valid local robot ID it is
\* that player's secsTillUnpenalised.
C6_PenaltyDerived ==
    /\ state.remainingPenalizedTime >= 0
    /\ state.isPenalized <=> (state.remainingPenalizedTime > 0)
    /\ (Passes(rx) /\ robotID \in 1 .. MAX_NUM_PLAYERS) =>
          LET ti == OwnSlot(applied, state.teamID)
              secs == applied.teams[ti].players[robotID - 1].secsTillUnpenalised
          IN  /\ state.remainingPenalizedTime = secs
              /\ state.isPenalized = (secs > 0)

\* C6 witness: the applied packet penalises the local robot for MaxSecs seconds.
C6_Witness ==
    /\ Passes(rx)
    /\ robotID \in 1 .. MAX_NUM_PLAYERS
    /\ state.isPenalized
    /\ state.remainingPenalizedTime = MaxSecs

\* C7: the counter goes up by exactly one for a packet that passes the version,
\* enabled and addressing checks, and is left alone by every other packet; it
\* never goes down.
C7_CounterByOne ==
    [][state'.counter = state.counter + (IF Passes(rx') THEN 1 ELSE 0)]_vars

\* C7 witness: two packets were counted and a third, handled one was not.
C7_Witness ==
    /\ state.counter = 2
    /\ Handled(rx) /\ ~Passes(rx)

\* A datagram has been read.
Seen(c) == c.outcome # "None"

\* The step reads a datagram: an iteration of threadMain, or a turn of the loop of
\* receive().
ReadStep ==
    \/ program = "fumanoid" /\ running
    \/ program = "gamectrl" /\ gpc = "loop" /\ gpc' = "loop"

\* No state of either program is written and nothing is sent (receive() never
\* writes to the socket, an iteration of threadMain starts with nothing written).
NothingTaken ==
    /\ Untouched
    /\ refereeEnabled' = refereeEnabled
    /\ sent' = (IF program = "fumanoid" THEN <<>> ELSE sent)
    /\ gameCtrlData' = gameCtrlData
    /\ received' = received

\* C9: a datagram whose length is not the size of the referee struct is rejected
\* whatever its header: it is not handed to the handler, not taken over by
\* receive(), and nothing of it reaches the local state of either program.
C9_WrongLengthRejected ==
    [][(ReadStep /\ Seen(rx') /\ ~rx'.sizeOK)
        => /\ rx'.outcome \notin {"Handled", "Accepted"}
           /\ NothingTaken]_vars

\* C10: a datagram of exactly the struct size whose first four bytes are not the
\* referee header is discarded: the handler is not called, no field of the local
\* state changes, the engine is not disabled.
C10_BadHeaderDiscarded ==
    [][(ReadStep /\ Seen(rx') /\ rx'.sizeOK /\ ~rx'.headerOK)
        => /\ rx'.outcome = (IF program = "fumanoid" THEN "Dropped" ELSE "Ignored")
           /\ NothingTaken]_vars

\* C10 witness: an enabled engine that holds reconciled state has just read such a
\* datagram, one whose version bytes would have disabled it.
C10_Witness ==
    /\ program = "fumanoid"
    /\ Seen(rx) /\ rx.sizeOK /\ ~rx.headerOK /\ ~rx.versionOK
    /\ refereeEnabled
    /\ state.counter > 0

\* C11: every valid packet addressed to the local team is followed, before the
\* next datagram is read, by exactly one write of a status packet: return header,
\* return version, local team ID, local robot ID, message ALIVE, to the address the
\* datagram came from with the port replaced by the referee port; the packet has
\* been reconciled (the counter stepped) when the write is made.
C11_AckAfterApplied ==
    [][Passes(rx') =>
        /\ sent' = <<[header |-> GAMECONTROLLER_RETURN_STRUCT_HEADER,
                      version |-> GAMECONTROLLER_RETURN_STRUCT_VERSION,
                      team |-> state.teamID, player |-> robotID,
                      message |-> GAMECONTROLLER_RETURN_MSG_ALIVE,
                      addr |-> rx'.from.addr, port |-> REFEREEPORT]>>
        /\ state'.counter = state.counter + 1
        /\ sentAfter' = state'.counter]_vars

\* C11 witness: the second packet applied came from a port other than the referee
\* port and was answered to the referee port of the same host.
C11_Witness ==
    /\ Passes(rx)
    /\ rx.from.port # REFEREEPORT
    /\ Len(sent) = 1 /\ sent[1].port = REFEREEPORT /\ sent[1].addr = rx.from.addr
    /\ state.counter = 2 /\ sentAfter = 2

\* The referee link of GameCtrl at a query: connected when a packet was received
\* within the last GAMECONTROLLER_TIMEOUT ms.
Connected == now - whenPacketWasReceived <= GAMECONTROLLER_TIMEOUT

\* C12: send cadence: while the link is connected the last send is never older
\* than ALIVE_DELAY (an ALIVE message is sent when none was within the interval,
\* whether or not packets arrive), and whenPacketWasSent is the time of the last
\* call of send, whatever the write returned.
C12_SendCadence ==
    program = "gamectrl" =>
        /\ Connected => now - whenPacketWasSent <= ALIVE_DELAY
        /\ lastAttempt # -1 => whenPacketWasSent = lastAttempt

\* The datagram decodes: right size, header and version, whatever its team slots.
Decoded(c) == c.sizeOK /\ c.headerOK /\ c.versionOK

\* C13: receive liveness: every datagram that decodes, addressed to the local team
\* or not, sets whenPacketWasReceived to the current time, so the link is
\* connected right after it.
C13_ReceiveLiveness ==
    [][(program = "gamectrl" /\ gpc = "loop" /\ gpc' = "loop" /\ Decoded(rx'))
        => (whenPacketWasReceived' = now' /\ Connected')]_vars

\* C14: after an addressed packet is applied, with the own slot the first one that
\* carries the local team number, teamScore, opponentScore and opponentID are the
\* score of the own slot, the score of the other slot and the team number of the
\* other slot, whatever was stored before.
C14_ScoresMirrored ==
    [][Passes(rx') =>
        LET ti == OwnSlot(applied', state.teamID)
        IN  /\ state'.teamScore = applied'.teams[ti].score
            /\ state'.opponentScore = applied'.teams[1 - ti].score
            /\ state'.opponentID = applied'.teams[1 - ti].teamNumber]_vars

\* C14 witness: the local team is in slot 1 and its score, the opponent of slot 0
\* and a score of 0 for it were taken over by the second packet applied.
C14_Witness ==
    /\ Passes(rx)
    /\ applied.teams[0].teamNumber # state.teamID
    /\ state.teamScore = MaxScore /\ state.opponentScore = 0
    /\ state.opponentID = applied.teams[0].teamNumber
    /\ state.counter = 2

\* C15: with a local robot ID outside 1..MAX_NUM_PLAYERS an applied packet leaves
\* remainingPenalizedTime and isPenalized as they were, makes every other update
\* (counter, opponent, scores, kickoff side, color, phase, penalty shoot, initialized)
\* and does not disable the engine.
C15_InvalidRobotSkipsPenalty ==
    [][(Passes(rx') /\ robotID' \notin 1 .. MAX_NUM_PLAYERS) =>
        LET p == applied'
            ti == OwnSlot(p, state.teamID)
            side == SideRule(p, ti)
            phase == PhaseRule(p)
        IN  /\ state'.remainingPenalizedTime = state.remainingPenalizedTime
            /\ state'.isPenalized = state.isPenalized
            /\ state'.counter = state.counter + 1
            /\ state'.opponentID = p.teams[1 - ti].teamNumber
            /\ state'.teamScore = p.teams[ti].score
            /\ state'.opponentScore = p.teams[1 - ti].score
            /\ state'.kickOffSide = (IF side = "unmapped" THEN state.kickOffSide ELSE side)
            /\ state'.teamColor = ColourRule(p, ti)
            /\ state'.gameState = (IF phase = "unmapped" THEN state.gameState ELSE phase)
            /\ state'.isPenaltyShoot = (p.secGameState = STATE2_PENALTYSHOOT)
            /\ GCinitialized'
            /\ refereeEnabled']_vars

\* C15 witness: a robot that was penalised under a valid ID has applied, under an
\* invalid one, a packet that starts the game; it is penalised as before.
C15_Witness ==
    /\ Passes(rx)
    /\ robotID \notin 1 .. MAX_NUM_PLAYERS
    /\ state.isPenalized /\ state.remainingPenalizedTime = MaxSecs
    /\ applied.state = STATE_PLAYING /\ state.gameState = "GAME_STARTED"

\* C16: GCinitialized is false until a packet of the supported version, addressed
\* to the local team, has been reconciled by an enabled engine: only such a packet
\* sets it, every such packet leaves it set, it is never cleared, and when it is set
\* the counter is at least 1.
C16_InitializedByFirstApplied ==
    [][/\ (GCinitialized' /\ ~GCinitialized) => Passes(rx')
       /\ Passes(rx') => GCinitialized'
       /\ GCinitialized => GCinitialized'
       /\ GCinitialized' => state'.counter >= 1]_vars

\* C16 witness: an engine that a packet of another version has disabled before any
\* packet was applied has handled a packet addressed to the local team, and is
\* not initialized.
C16_Witness ==
    /\ ~GCinitialized
    /\ mismatched
    /\ Handled(rx) /\ rx.versionOK /\ rx.addressed /\ ~rx.enabled

\* C17: after an addressed packet is applied the game phase is Stopped for referee
\* state Initial, Ready for Ready, Set for Set, Started for Playing and Stopped for
\* Finished; for a referee state outside these five it keeps its value.
C17_PhaseMapping ==
    [][Passes(rx') =>
        state'.gameState =
            CASE applied'.state = STATE_INITIAL -> "GAME_STOPPED"
              [] applied'.state = STATE_READY -> "GAME_READY"
              [] applied'.state = STATE_SET -> "GAME_SET"
              [] applied'.state = STATE_PLAYING -> "GAME_STARTED"
              [] applied'.state = STATE_FINISHED -> "GAME_STOPPED"
              [] OTHER -> state.gameState]_vars

\* C17 witness: the second packet applied carried the referee state Set.
C17_Witness ==
    /\ Passes(rx)
    /\ applied.state = STATE_SET
    /\ state.gameState = "GAME_SET"
    /\ state.counter = 2

\* The kickoff mode and the kickoff side agree.
KickOffConsistent(st) ==
    /\ st.kickOffMode = "KICKOFF_DROPBALL" <=> st.kickOffSide = "KICKOFFSIDE_ANY"
    /\ st.kickOffMode = "KICKOFF_REGULAR"
          <=> st.kickOffSide \in {"KICKOFFSIDE_ME", "KICKOFFSIDE_OPPONENT"}

\* C20: from the zero/sentinel initial state, every applied packet with kickOffTeam
\* 0, 1 or 2 leaves the mode DropBall exactly when the side is Either and Regular
\* exactly when the side is Self or Opponent, and no later step undoes it.
C20_KickOffConsistent ==
    [][/\ (Passes(rx') /\ applied'.kickOffTeam \in 0 .. 2) => KickOffConsistent(state')
       /\ KickOffConsistent(state) => KickOffConsistent(state')]_vars

\* C20 witness: a regular kick off for the opponent was applied after a drop ball
\* or another kick off.
C20_Witness ==
    /\ Passes(rx)
    /\ applied.kickOffTeam = 1 - OwnSlot(applied, state.teamID)
    /\ state.kickOffMode = "KICKOFF_REGULAR"
    /\ state.kickOffSide = "KICKOFFSIDE_OPPONENT"
    /\ state.counter = 2

\* The datagram is one GameCtrl is to take over: exactly the struct size, the
\* referee header, the supported version, a slot for the nonzero local team number.
GcValid(c) == c.sizeOK /\ c.headerOK /\ c.versionOK /\ c.addressed /\ c.enabled

\* C18: receive() starts with received = false; each datagram it reads that is
\* valid for GameCtrl is copied to gameCtrlData and sets received, every other
\* datagram leaves both alone (so the result is true exactly when a valid datagram
\* was read, gameCtrlData is then the last of them, and with teamNumber 0 nothing
\* is ever accepted).
C18_ReceiveAcceptsValidOnly ==
    [][program = "gamectrl" =>
        /\ (gpc = "main" /\ gpc' = "loop") => ~received'
        /\ (gpc = "loop" /\ gpc' = "loop" /\ GcValid(rx'))
              => (received' /\ gameCtrlData' = applied')
        /\ (gpc = "loop" /\ gpc' = "loop" /\ ~GcValid(rx'))
              => (received' = received /\ gameCtrlData' = gameCtrlData)
        /\ (gpc = "loop" /\ gpc' = "main")
              => (received' = received /\ gameCtrlData' = gameCtrlData)
        /\ teamNumber = 0 => gameCtrlData' = ZeroData]_vars

\* C19: a status packet is written only in answer to a packet addressed to the
\* local team: a datagram of the right size and header that the handler ignores
\* (other version, engine disabled, or no slot for the local team) causes no write.
C19_AckOnlyAddressed ==
    [][(program = "fumanoid" /\ running /\ Handled(rx') /\ ~Passes(rx'))
        => sent' = <<>>]_vars

\* ------------------------------------------------------------------------
\* handleRefereeMessage statement by statement, with a reader on another thread
\* ------------------------------------------------------------------------

\* The packets of the right version the listener is fed in this view
StepPackets == {d \in RoboCupGameControlData : d.version = STRUCT_VERSION}

\* What a reader gets: the local game state and the initialized flag.
currentState(self) == [state |-> self.state, GCinitialized |-> self.GCinitialized]

\* The statement at a line of handleRefereeMessage, applied to the local state.
Statement(line, st, data, ti, id) ==
    CASE line = "l253" -> IncCounter(st)
      [] line = "l256" -> SetOpponent(st, data, ti)
      [] line = "l259" -> AdjustScores(st, data, ti)
      [] line = "l279" -> HandleDropBall(st, data)
      [] line = "l286" -> AdjustKickOff(st, data, ti)
      [] line = "l296" -> AdjustTeamColor(st, data, ti)
      [] line = "l303" -> AdjustGameState(st, data)
      [] line = "l321" -> AdjustPenaltyShoot(st, data)
      [] line = "l331" -> HandlePenalties(st, data, ti, id)
      [] OTHER -> st

\* The line that follows a line
NextLine(line) ==
    CASE line = "l253" -> "l256"
      [] line = "l256" -> "l259"
      [] line = "l259" -> "l279"
      [] line = "l279" -> "l286"
      [] line = "l286" -> "l296"
      [] line = "l296" -> "l303"
      [] line = "l303" -> "l321"
      [] line = "l321" -> "l331"
      [] line = "l331" -> "l342"
      [] OTHER -> "idle"

\* The listener thread enters handleRefereeMessage with a packet and runs the
\* checks of lines 232-250; no lock is taken.
handlerEnter ==
    /\ program = "fumanoid"
    /\ running
    /\ hpc = "idle"
    /\ state.counter < MaxCounter
    /\ \E data \in StepPackets :
          LET self == [state |-> state, refereeEnabled |-> refereeEnabled,
                       GCinitialized |-> GCinitialized]
          IN  /\ refereeEnabled' = (IF data.version # STRUCT_VERSION
                                    THEN OnVersionMismatch(self).refereeEnabled
                                    ELSE refereeEnabled)
              /\ hpc' = IF data.version = STRUCT_VERSION /\ refereeEnabled
                           /\ TeamIndex(state, data) # -1
                        THEN "l253" ELSE "idle"
              /\ hdata' = data
              /\ before' = self
              /\ reader' = NoRead
    /\ UNCHANGED <<program, running, robotID, state, GCinitialized, sent, sentAfter,
                   rx, applied, mismatched, streak>>
    /\ UNCHANGED gcVars

\* The listener thread executes the statement it is at.
handlerStep ==
    /\ program = "fumanoid"
    /\ hpc # "idle"
    /\ state' = Statement(hpc, state, hdata, TeamIndex(state, hdata), robotID)
    /\ GCinitialized' = (IF hpc = "l342" THEN TRUE ELSE GCinitialized)
    /\ hpc' = NextLine(hpc)
    /\ \E remoteAddress \in Senders(WellFormedOf(hdata)) :
          sent' = IF hpc = "l342" THEN <<StatusPacket(state, robotID, remoteAddress)>> ELSE sent
    /\ sentAfter' = IF hpc = "l342" THEN state.counter ELSE sentAfter
    /\ UNCHANGED <<program, running, robotID, refereeEnabled, rx, applied,
                   mismatched, streak, hdata, before, reader>>
    /\ UNCHANGED gcVars

\* A reader on another thread takes a snapshot of the local game state; with it the
\* model notes the state before the call in progress and the state after it.
read ==
    /\ program = "fumanoid"
    /\ running
    /\ LET self == [state |-> state, refereeEnabled |-> refereeEnabled,
                    GCinitialized |-> GCinitialized]
           b == IF hpc = "idle" THEN self ELSE before
           a == IF hpc = "idle" THEN self ELSE handleRefereeMessage(before, hdata, robotID)
       IN  reader' = [snap |-> currentState(self), before |-> currentState(b),
                      after |-> currentState(a)]
    /\ UNCHANGED <<program, running, robotID, state, refereeEnabled, GCinitialized,
                   sent, sentAfter, rx, applied, mismatched, streak, hpc, hdata, before>>
    /\ UNCHANGED gcVars

NextStep == init \/ handlerEnter \/ handlerStep \/ read

\* The statement-by-statement view is one of RefereeGameController alone.
InitStep == Init /\ program = "fumanoid"

SpecStep == InitStep /\ [][NextStep]_vars

\* C8: a reader never sees a partly updated state: what it reads while the listener
\* reconciles a packet is the state before that packet or the state after it.
C8_NoTornRead ==
    reader # NoRead => reader.snap \in {reader.before, reader.after}

\* Run to its end, the statement-by-statement handler does what the call does.
StepsAgree ==
    (hpc = "idle" /\ before # NoCall /\ hdata # NoPacket) =>
        LET a == handleRefereeMessage(before, hdata, robotID)
        IN  /\ state = a.state
            /\ GCinitialized = a.GCinitialized
            /\ refereeEnabled = a.refereeEnabled

====
